---- MODULE Spec2Model ----
(***************************************************************************)
(* Model of gateway/scanner.py: the TrailScanner engine.                   *)
(*                                                                         *)
(* Strings (allow-list entries, advertised names, service identifiers,    *)
(* hardware addresses, tokens) are sequences of one-character strings, so  *)
(* that str.upper() and the hash are computed character by character.     *)
(* Optional values (Python None) are sequences of length 0 or 1.           *)
(* Time is the wall clock in whole seconds.  Latitudes and longitudes are  *)
(* in millionths of a degree.                                              *)
(***************************************************************************)
EXTENDS Integers, Sequences, FiniteSets, TLC

VARIABLES
    now,                \* datetime.now(), seconds
    config,             \* self.config: gateway_id, gps, allowed_tag_uuids
    allowed_order,      \* iteration order of the set self.allowed_tag_uuids
    gps_coords,         \* self.gps_coords
    buffer,             \* self.buffer: set of hashed device ids
    tag_rssi_windows,   \* self.tag_rssi_windows: tag_id -> deque of <<ts, rssi>>
    last_batch_time,    \* self.last_batch_time
    last_sent_gps,      \* self.last_sent_gps: None or [lat, lng, ts]
    scan_count,         \* self.scan_count
    scanned,            \* input of the last step: the devices discover returned
    csv_rows,           \* output of the last step: the rows appended to detections.csv
    posted,             \* output of the last step: the json handed to requests.post, or None
    response,           \* output of the last step: "idle" when it was no dispatch cycle,
                        \* "none" for a cycle without a transport call, else how the call ended
    recorded,           \* history: the hashed_mac values saved in the current interval
    duplicates,         \* history: some hashed_mac was saved twice in that interval
    drained,            \* history: a dispatch cycle closed the interval
    sightings,          \* history: number of scans so far that returned a device
                        \* (of recorded samples, in the window specification)
    pc,                 \* position of run()
    gate_result,        \* value returned by should_send_asset_tracking (gate specification)
    median_result       \* last call of get_median_rssi (window specification):
                        \* the deque it found and the value it returned

vars == <<now, config, allowed_order, gps_coords, buffer, tag_rssi_windows,
          last_batch_time, last_sent_gps, scan_count, scanned, csv_rows, posted,
          response, recorded, duplicates, drained, sightings, pc, gate_result,
          median_result>>

(* what the constructor fixes *)
config_vars == <<config, allowed_order, gps_coords>>

----------------------------------------------------------------------------
(* Program constants *)

SCAN_INTERVAL == 5
BATCH_SEND_INTERVAL == 180
MOVEMENT_DISTANCE_THRESHOLD == 10
MOVEMENT_TIME_THRESHOLD == 120
RSSI_WINDOW_SIZE == 30
EARTH_RADIUS == 6371000
DISCOVER_TIMEOUT == 5

(* Bounds of the model *)

MaxTicks == 3            \* the clock stops after MaxTicks steps of TickSeconds
MaxSightings == 2        \* scans that return a device at all
MaxScanCount == 38       \* iterations of the loop of run()
MaxRecords == 3          \* calls of update_tag_rssi_window (window specification)
MaxClockSteps == 5       \* advances of the clock (window specification)

----------------------------------------------------------------------------
(* seconds between two readings of the clock *)
TickSeconds == 2 * RSSI_WINDOW_SIZE

(* Optional values and small helpers *)

None == <<>>

Some(x) == <<x>>

Range(s) == {s[i] : i \in DOMAIN s}

Abs(x) == IF x < 0 THEN -x ELSE x

RECURSIVE Insert(_, _)
Insert(x, s) ==
    IF s = <<>> THEN <<x>>
    ELSE IF x <= Head(s) THEN <<x>> \o s
    ELSE <<Head(s)>> \o Insert(x, Tail(s))

RECURSIVE Sorted(_)
Sorted(s) == IF s = <<>> THEN <<>> ELSE Insert(Head(s), Sorted(Tail(s)))

(* int(x) of the rational num/den: truncation toward zero *)
IntOf(q) ==
    IF q.num >= 0 THEN q.num \div q.den ELSE -((-q.num) \div q.den)

----------------------------------------------------------------------------
(* Strings *)

UpChar(c) ==
    CASE c = "a" -> "A"
      [] c = "b" -> "B"
      [] c = "c" -> "C"
      [] c = "t" -> "T"
      [] OTHER -> c

(* str.upper() *)
Upper(s) == [i \in DOMAIN s |-> UpChar(s[i])]

CharCode(c) ==
    CASE c = "A" -> 65 [] c = "B" -> 66 [] c = "C" -> 67 [] c = "T" -> 84
      [] c = "W" -> 87 [] c = "X" -> 88 [] c = "Y" -> 89 [] c = "Z" -> 90
      [] c = "a" -> 97 [] c = "b" -> 98 [] c = "c" -> 99 [] c = "t" -> 116
      [] c = ":" -> 58 [] c = "-" -> 45
      [] c = "0" -> 48 [] c = "1" -> 49 [] c = "2" -> 50 [] c = "9" -> 57
      [] OTHER -> 63

HexDigits == <<"0", "1", "2", "3", "4", "5", "6", "7",
               "8", "9", "a", "b", "c", "d", "e", "f">>

(* A digest of the encoded string, one byte wide in the model. *)
RECURSIVE Digest(_, _)
Digest(s, h) ==
    IF s = <<>> THEN h
    ELSE Digest(Tail(s), (h * 33 + CharCode(Head(s))) % 256)

HexDigest(h) == <<HexDigits[(h \div 16) + 1], HexDigits[(h % 16) + 1]>>

(* hash_mac with the raw address returned instead of its digest *)
hash_mac_plain(mac_address) == mac_address

(* hashlib.sha256(mac_address.encode()).hexdigest()[:16] *)
hash_mac(mac_address) == HexDigest(Digest(mac_address, 7))

----------------------------------------------------------------------------
(* The strings of the model *)

Ta == <<"T", "a">>
TA == <<"T", "A">>
ta == <<"t", "a">>
addr_b1 == <<"b", ":", "1">>
addr_B1 == <<"B", ":", "1">>
addr_X9 == <<"X", ":", "9">>
addr_Y9 == <<"Y", ":", "9">>
svc_c2 == <<"c", "-", "2">>
svc_C2 == <<"C", "-", "2">>
svc_z0 == <<"z", "-", "0">>

GatewayId == <<"g", "w">>

(* Contents of config.json["allowed_tag_uuids"], in the iteration order of the
   set built from it. *)
AllowLists ==
    { <<Ta, addr_B1>>, <<svc_C2, addr_b1>>, <<TA, Ta>> }

(* config.json["gps"]: a position, in millionths of a degree *)
GpsBase == [lat |-> 38500000, lng |-> -92500000]

BaseLat == GpsBase.lat

BaseLng == GpsBase.lng

GpsChoices == { GpsBase }

Device(address, name, uuids, meta, rssi) ==
    [address |-> address, name |-> name, UUIDs |-> uuids,
     metadata_uuids |-> meta, RSSI |-> rssi]

(* What BleakScanner.discover can report for one device *)
dev_anon == Device(addr_X9, <<>>, <<>>, <<>>, Some(-60))
dev_name_lower == Device(addr_Y9, ta, <<>>, <<>>, Some(-70))
dev_name == Device(addr_Y9, Ta, <<>>, <<>>, Some(-65))
dev_address == Device(addr_B1, <<>>, <<>>, <<>>, Some(-70))
dev_service == Device(addr_X9, <<>>, <<svc_z0>>, <<svc_c2>>, Some(-70))
dev_all == Device(addr_B1, Ta, <<svc_c2>>, <<>>, Some(-60))
dev_all_no_rssi == Device(addr_B1, Ta, <<svc_c2>>, <<>>, None)

Devices ==
    { dev_anon, dev_name_lower, dev_name, dev_address, dev_service, dev_all,
      dev_all_no_rssi }

Addresses == { d.address : d \in Devices }

(* The lists discover can return, one entry per hardware address: nothing,
   any single device, and some lists of two and three. *)
Scans ==
    { <<>> } \cup { <<d>> : d \in Devices }
    \cup { <<dev_name_lower, dev_all>>, <<dev_all_no_rssi, dev_anon>>,
           <<dev_anon, dev_name, dev_address>> }

----------------------------------------------------------------------------
(* Identity resolution: scan_once, the body of the loop over the devices *)

(* self.allowed_tag_uuids_upper *)
allowed_tag_uuids_upper(order) == { Upper(order[i]) : i \in DOMAIN order }

(* "for allowed_id in self.allowed_tag_uuids: if str(allowed_id).upper() == s:
   matched_tag_id = allowed_id; break": the first entry, in iteration order,
   that equals s once upper-cased; None when there is none. *)
RECURSIVE first_upper_match(_, _)
first_upper_match(order, s) ==
    IF order = <<>> THEN None
    ELSE IF Upper(Head(order)) = s THEN Some(Head(order))
    ELSE first_upper_match(Tail(order), s)

(* the name matcher, returning the name as seen on the wire *)
match_name_wire(order, name) ==
    IF name = <<>> THEN None
    ELSE IF name \in Range(order) \/ Upper(name) \in allowed_tag_uuids_upper(order)
         THEN Some(name)
    ELSE None

(* lines 240-249 *)
match_name(order, name) ==
    IF name = <<>> THEN None
    ELSE IF name \in Range(order) THEN Some(name)
    ELSE first_upper_match(order, Upper(name))

(* lines 260-270: the first service identifier that resolves *)
RECURSIVE match_service_uuids(_, _)
match_service_uuids(order, service_uuids) ==
    IF service_uuids = <<>> THEN None
    ELSE LET service_uuid_str == Upper(Head(service_uuids))
             found == IF service_uuid_str \in allowed_tag_uuids_upper(order)
                      THEN first_upper_match(order, service_uuid_str)
                      ELSE None
         IN IF found # None THEN found
            ELSE match_service_uuids(order, Tail(service_uuids))

(* lines 273-280 *)
match_address(order, address) ==
    LET device_identifier == Upper(address)
    IN IF device_identifier \in allowed_tag_uuids_upper(order)
       THEN first_upper_match(order, device_identifier)
       ELSE None

(* the matchers tried in the opposite order: address, service identifiers, name *)
matched_tag_id_address_first(order, device) ==
    LET by_address == match_address(order, device.address)
        by_uuid == match_service_uuids(order, device.UUIDs \o device.metadata_uuids)
    IN IF by_address # None THEN by_address
       ELSE IF by_uuid # None THEN by_uuid
       ELSE match_name(order, device.name)

(* matched_tag_id for one device: name, then service identifiers, then address *)
matched_tag_id(order, device) ==
    LET by_name == match_name(order, device.name)
        by_uuid == match_service_uuids(order, device.UUIDs \o device.metadata_uuids)
    IN IF by_name # None THEN by_name
       ELSE IF by_uuid # None THEN by_uuid
       ELSE match_address(order, device.address)

----------------------------------------------------------------------------
(* RSSI windows *)

(* read of the defaultdict: a missing key reads as an empty deque *)
window_of(windows, tag_id) ==
    IF tag_id \in DOMAIN windows THEN windows[tag_id] ELSE <<>>

(* "while window and window[0][0] < cutoff_time: window.popleft()" *)
RECURSIVE prune(_, _)
prune(window, cutoff_time) ==
    IF window # <<>> /\ window[1][1] < cutoff_time
    THEN prune(Tail(window), cutoff_time)
    ELSE window

(* the cleaning loop left out *)
cleaned_never(window, current_time) == window

(* the deque after get_median_rssi or update_tag_rssi_window cleaned it *)
cleaned(window, current_time) == prune(window, current_time - RSSI_WINDOW_SIZE)

(* update_tag_rssi_window: the windows afterwards *)
update_tag_rssi_window(windows, tag_id, rssi, current_time) ==
    LET appended == Append(window_of(windows, tag_id), <<current_time, rssi>>)
    IN [k \in DOMAIN windows \cup {tag_id} |->
          IF k = tag_id THEN cleaned(appended, current_time) ELSE windows[k]]

(* the median taken from the values in insertion order, without the sort *)
median_unsorted(values) ==
    LET n == Len(values)
    IN IF n % 2 = 0
       THEN [num |-> values[n \div 2] + values[(n \div 2) + 1], den |-> 2]
       ELSE [num |-> values[(n \div 2) + 1], den |-> 1]

(* the median of a non-empty list of values, as the rational num/den *)
median(values) ==
    LET rssi_values == Sorted(values)
        n == Len(rssi_values)
    IN IF n % 2 = 0
       THEN [num |-> rssi_values[n \div 2] + rssi_values[(n \div 2) + 1], den |-> 2]
       ELSE [num |-> rssi_values[(n \div 2) + 1], den |-> 1]

(* get_median_rssi: the value returned, at clock current_time *)
get_median_rssi(windows, tag_id, current_time) ==
    LET window == cleaned(window_of(windows, tag_id), current_time)
    IN IF window = <<>> THEN None
       ELSE Some(median([i \in DOMAIN window |-> window[i][2]]))

(* get_median_rssi: the windows afterwards (the key exists, the deque is cleaned) *)
windows_after_median(windows, tag_id, current_time) ==
    [k \in DOMAIN windows \cup {tag_id} |->
        IF k = tag_id THEN cleaned(window_of(windows, tag_id), current_time)
        ELSE windows[k]]

----------------------------------------------------------------------------
(* scan_once and save_detections *)

(* the loop over the devices without the check of the signal strength: a
   sighting without one is recorded with signal 0 *)
RECURSIVE scan_windows_unfiltered(_, _, _, _)
scan_windows_unfiltered(windows, order, devices, current_time) ==
    IF devices = <<>> THEN windows
    ELSE LET device == Head(devices)
             matched == matched_tag_id(order, device)
             rssi == IF device.RSSI # None THEN device.RSSI[1] ELSE 0
             next == IF matched # None
                     THEN update_tag_rssi_window(windows, matched[1], rssi, current_time)
                     ELSE windows
         IN scan_windows_unfiltered(next, order, Tail(devices), current_time)

(* scan_once, lines 231-284: the windows after the loop over the devices *)
RECURSIVE scan_windows(_, _, _, _)
scan_windows(windows, order, devices, current_time) ==
    IF devices = <<>> THEN windows
    ELSE LET device == Head(devices)
             matched == matched_tag_id(order, device)
             next == IF device.RSSI # None /\ matched # None
                     THEN update_tag_rssi_window(windows, matched[1],
                                                 device.RSSI[1], current_time)
                     ELSE windows
         IN scan_windows(next, order, Tail(devices), current_time)

(* the detections without the sightings that matched a tracked tag *)
RECURSIVE scan_detections_unmatched(_, _)
scan_detections_unmatched(devices, timestamp) ==
    IF devices = <<>> THEN <<>>
    ELSE LET device == Head(devices)
             rest == scan_detections_unmatched(Tail(devices), timestamp)
         IN IF device.RSSI = None \/ matched_tag_id(allowed_order, device) # None
            THEN rest
            ELSE <<[timestamp |-> timestamp,
                    hashed_mac |-> hash_mac(device.address),
                    rssi |-> device.RSSI[1]]>> \o rest

(* scan_once, lines 286-295: the detections returned *)
RECURSIVE scan_detections(_, _)
scan_detections(devices, timestamp) ==
    IF devices = <<>> THEN <<>>
    ELSE LET device == Head(devices)
             rest == scan_detections(Tail(devices), timestamp)
         IN IF device.RSSI = None THEN rest
            ELSE <<[timestamp |-> timestamp,
                    hashed_mac |-> hash_mac(device.address),
                    rssi |-> device.RSSI[1]]>> \o rest

(* save_detections keeping the buffer only when it was empty *)
saved_buffer_first_only(buf, detections) ==
    IF buf = {} THEN {detections[i].hashed_mac : i \in DOMAIN detections} ELSE buf

(* save_detections replacing the buffer by the tokens of this scan *)
saved_buffer_replacing(buf, detections) ==
    IF detections = <<>> THEN buf
    ELSE {detections[i].hashed_mac : i \in DOMAIN detections}

(* save_detections: self.buffer afterwards *)
saved_buffer(buf, detections) ==
    buf \cup {detections[i].hashed_mac : i \in DOMAIN detections}

(* save_detections: the rows written to the CSV file by this call *)
saved_rows(detections) == detections

----------------------------------------------------------------------------
(* Movement gate *)

(* R * pi / 180: metres per degree of arc, i.e. micrometres per microdegree *)
ArcPerDegree == ((EARTH_RADIUS \div 1000) * 31416) \div 1800

(* haversine_distance in micrometres.  Every position of the model lies on one
   meridian (lng1 = lng2), where a = sin(delta_phi / 2) ** 2 and R * c is the
   arc R * |delta_phi|. *)
haversine_distance(lat1, lng1, lat2, lng2) == Abs(lat2 - lat1) * ArcPerDegree

(* the gate with >= for the time threshold *)
should_send_inclusive(lsg, gps, current_time) ==
    IF lsg = None THEN TRUE
    ELSE IF current_time - lsg[1].ts >= MOVEMENT_TIME_THRESHOLD THEN TRUE
    ELSE haversine_distance(lsg[1].lat, lsg[1].lng, gps.lat, gps.lng)
            > MOVEMENT_DISTANCE_THRESHOLD * 1000000

(* should_send_asset_tracking, reading self.last_sent_gps and self.gps_coords *)
should_send_asset_tracking(lsg, gps, current_time) ==
    IF lsg = None THEN TRUE
    ELSE IF current_time - lsg[1].ts > MOVEMENT_TIME_THRESHOLD THEN TRUE
    ELSE IF haversine_distance(lsg[1].lat, lsg[1].lng, gps.lat, gps.lng)
            > MOVEMENT_DISTANCE_THRESHOLD * 1000000 THEN TRUE
    ELSE FALSE

----------------------------------------------------------------------------
(* batch_send *)

(* lines 155-162: the telemetry section, None when the buffer is empty *)
telemetry_payload(cfg, buf, start_time) ==
    IF buf # {}
    THEN Some([gateway_id |-> cfg.gateway_id,
               timestamp |-> start_time,
               unique_devices |-> Cardinality(buf)])
    ELSE None

(* the drain left out *)
drained_buffer_kept(buf) == buf

(* line 163: self.buffer after the telemetry section was prepared *)
drained_buffer(buf) == IF buf # {} THEN {} ELSE buf

(* lines 171-178: the tags with a median, in allow-list iteration order *)
RECURSIVE tracked_tags(_, _, _)
tracked_tags(windows, order, current_time) ==
    IF order = <<>> THEN <<>>
    ELSE LET tag_id == Head(order)
             median_rssi == get_median_rssi(windows, tag_id, current_time)
             rest == tracked_tags(windows, Tail(order), current_time)
         IN IF median_rssi # None
            THEN <<[id |-> tag_id, rssi |-> IntOf(median_rssi[1])]>> \o rest
            ELSE rest

(* lines 172-173: the windows after get_median_rssi ran for every allow-list entry *)
RECURSIVE windows_after_tags(_, _, _)
windows_after_tags(windows, order, current_time) ==
    IF order = <<>> THEN windows
    ELSE windows_after_tags(windows_after_median(windows, Head(order), current_time),
                            Tail(order), current_time)

(* the asset section built only when some tag has a median *)
asset_payload_if_tags(cfg, gps, windows, order, start_time, should_send_assets) ==
    IF should_send_assets /\ tracked_tags(windows, order, start_time) # <<>>
    THEN Some([gateway_id |-> cfg.gateway_id, ts |-> start_time,
               lat |-> gps.lat, lng |-> gps.lng,
               tags |-> tracked_tags(windows, order, start_time)])
    ELSE None

(* lines 166-186: the asset_tracking section, None when the gate says no *)
asset_payload(cfg, gps, windows, order, start_time, should_send_assets) ==
    IF should_send_assets
    THEN Some([gateway_id |-> cfg.gateway_id, ts |-> start_time,
               lat |-> gps.lat, lng |-> gps.lng,
               tags |-> tracked_tags(windows, order, start_time)])
    ELSE None

(* lines 189-193 *)
sent_gps(lsg, gps, start_time, should_send_assets) ==
    IF should_send_assets
    THEN Some([lat |-> gps.lat, lng |-> gps.lng, ts |-> start_time])
    ELSE lsg

(* lines 196-200: the sections of combined_payload; a missing key is None *)
combined_payload(telemetry, asset) ==
    [telemetry |-> telemetry, asset_tracking |-> asset]

(* the check of the empty payload left out *)
is_empty_never(combined) == FALSE

(* "if not combined_payload" *)
is_empty_payload(combined) ==
    combined.telemetry = None /\ combined.asset_tracking = None

(* How requests.post and response.json() can end: a success response, a
   non-success response with a JSON body, an exception raised by post, a body
   that is not JSON (response.json() raises). *)
Outcomes == {"ok", "http_error", "network_error", "bad_body"}

raises(outcome) == outcome \in {"network_error", "bad_body"}

(* batch_send as a whole; when it raises, the assignments made before
   requests.post stand. *)
batch_send(outcome) ==
    LET start_time == now
        telemetry == telemetry_payload(config, buffer, start_time)
        should_send_assets ==
            should_send_asset_tracking(last_sent_gps, gps_coords, start_time)
        asset == asset_payload(config, gps_coords, tag_rssi_windows,
                               allowed_order, start_time, should_send_assets)
        combined == combined_payload(telemetry, asset)
    IN /\ buffer' = drained_buffer(buffer)
       /\ tag_rssi_windows' =
            IF should_send_assets
            THEN windows_after_tags(tag_rssi_windows, allowed_order, start_time)
            ELSE tag_rssi_windows
       /\ last_sent_gps' = sent_gps(last_sent_gps, gps_coords, start_time,
                                    should_send_assets)
       /\ IF is_empty_payload(combined)
          THEN /\ posted' = None
               /\ response' = "none"
               /\ last_batch_time' = last_batch_time
          ELSE /\ posted' = Some(combined)
               /\ response' = IF raises(outcome) THEN "raised" ELSE outcome
               /\ last_batch_time' = start_time
       /\ drained' = TRUE
       /\ recorded' = IF drained THEN {} ELSE recorded
       /\ duplicates' = IF drained THEN FALSE ELSE duplicates
       /\ csv_rows' = <<>>
       /\ scanned' = <<>>
       /\ UNCHANGED <<config_vars, sightings>>

(* a step that scans nothing, writes nothing and posts nothing *)
no_io ==
    /\ scanned' = <<>>
    /\ csv_rows' = <<>>
    /\ posted' = None
    /\ response' = "idle"

(* scan_once followed by save_detections, as run() calls them (lines 322-325) *)
scan_and_save(devices, current_time) ==
    LET detections == scan_detections(devices, current_time)
    IN /\ tag_rssi_windows' =
            scan_windows(tag_rssi_windows, allowed_order, devices, current_time)
       /\ buffer' = saved_buffer(buffer, detections)
       /\ scanned' = devices
       /\ csv_rows' = saved_rows(detections)
       /\ posted' = None
       /\ response' = "idle"
       /\ sightings' = sightings + (IF devices = <<>> THEN 0 ELSE 1)
       /\ LET tokens == {detections[i].hashed_mac : i \in DOMAIN detections}
              before == IF drained THEN {} ELSE recorded
          IN /\ recorded' = before \cup tokens
             /\ duplicates' = ((~drained /\ duplicates) \/ tokens \cap before # {})
             /\ drained' = (drained /\ tokens = {})
       /\ UNCHANGED <<config_vars, last_batch_time, last_sent_gps>>

(* the bounds on what one scan may add *)
within_bounds(devices) == devices # <<>> => sightings < MaxSightings

----------------------------------------------------------------------------
(* The engine driven through its methods *)

(* __init__, lines 40-54 *)
InitEngine(lists) ==
    /\ now = 0
    /\ \E order \in lists, gps \in GpsChoices :
          /\ config = [gateway_id |-> GatewayId, gps |-> gps,
                       allowed_tag_uuids |-> Range(order)]
          /\ allowed_order = order
          /\ gps_coords = gps
    /\ buffer = {}
    /\ tag_rssi_windows = <<>>
    /\ last_batch_time = now
    /\ last_sent_gps = None
    /\ scan_count = 0
    /\ scanned = <<>>
    /\ csv_rows = <<>>
    /\ posted = None
    /\ response = "idle"
    /\ recorded = {}
    /\ duplicates = FALSE
    /\ drained = FALSE
    /\ sightings = 0
    /\ gate_result = None
    /\ median_result = None

Init == InitEngine(AllowLists) /\ pc = "api"

Scan ==
    \E devices \in Scans :
        /\ within_bounds(devices)
        /\ scan_and_save(devices, now)
        /\ UNCHANGED <<now, scan_count, pc, gate_result, median_result>>

Batch ==
    \E outcome \in Outcomes :
        /\ batch_send(outcome)
        /\ UNCHANGED <<now, scan_count, pc, gate_result, median_result>>

Tick ==
    /\ now + TickSeconds <= MaxTicks * TickSeconds
    /\ now' = now + TickSeconds
    /\ no_io
    /\ UNCHANGED <<config_vars, buffer, tag_rssi_windows, last_batch_time,
                   last_sent_gps, scan_count, recorded, duplicates, drained,
                   sightings, pc, gate_result, median_result>>

Next == Scan \/ Batch \/ Tick

Spec == Init /\ [][Next]_vars

----------------------------------------------------------------------------
(* The engine driven by run(), lines 318-343.  pc is "scan" while run awaits
   scan_once, "check" at line 336, "sleep" while it awaits asyncio.sleep and
   "crashed" once an exception has left the loop (only KeyboardInterrupt is
   caught). *)

RunAllowLists == { <<Ta, addr_B1>> }

RunScans == { <<>>, <<dev_anon>>, <<dev_name_lower>>, <<dev_all_no_rssi, dev_anon>> }

InitRun == InitEngine(RunAllowLists) /\ pc = "scan"

(* lines 319-325: discover returns after its timeout, the detections are saved *)
RunScan ==
    /\ pc = "scan"
    /\ scan_count < MaxScanCount
    /\ scan_count' = scan_count + 1
    /\ now' = now + DISCOVER_TIMEOUT
    /\ \E devices \in RunScans :
          /\ within_bounds(devices)
          /\ scan_and_save(devices, now + DISCOVER_TIMEOUT)
    /\ pc' = "check"
    /\ UNCHANGED <<gate_result, median_result>>

(* the test of line 336-338 with >= *)
batch_due_inclusive == now - last_batch_time >= BATCH_SEND_INTERVAL

(* the test of line 336-338 always passing *)
batch_due_always == TRUE

(* the test of line 336-338 never passing *)
batch_due_never == FALSE

(* line 336-338 *)
batch_due == now - last_batch_time > BATCH_SEND_INTERVAL

(* lines 336-340, the branch taken, with the transport ending in one of
   outcomes: an exception of batch_send ends run() *)
RunBatchWith(outcomes) ==
    /\ pc = "check"
    /\ batch_due
    /\ \E outcome \in outcomes :
          /\ batch_send(outcome)
          /\ pc' = IF raises(outcome) /\ response' # "none" THEN "crashed" ELSE "sleep"
    /\ UNCHANGED <<now, scan_count, gate_result, median_result>>

RunBatch == RunBatchWith(Outcomes)

(* lines 336-338, the branch not taken *)
RunSkip ==
    /\ pc = "check"
    /\ ~batch_due
    /\ pc' = "sleep"
    /\ no_io
    /\ UNCHANGED <<now, config_vars, buffer, tag_rssi_windows, last_batch_time,
                   last_sent_gps, scan_count, recorded, duplicates, drained,
                   sightings, gate_result, median_result>>

(* line 343 *)
RunSleep ==
    /\ pc = "sleep"
    /\ now' = now + SCAN_INTERVAL
    /\ pc' = "scan"
    /\ no_io
    /\ UNCHANGED <<config_vars, buffer, tag_rssi_windows, last_batch_time,
                   last_sent_gps, scan_count, recorded, duplicates, drained,
                   sightings, gate_result, median_result>>

NextRun == RunScan \/ RunBatch \/ RunSkip \/ RunSleep

SpecRun == InitRun /\ [][NextRun]_vars

(* run() while every transport call returns a response with a JSON body, every
   scan completes and every sleep ends: each step of the loop that can be taken
   is taken. *)
ReturningOutcomes == { outcome \in Outcomes : ~raises(outcome) }

RunBatchReturns == RunBatchWith(ReturningOutcomes)

NextLive == RunScan \/ RunBatchReturns \/ RunSkip \/ RunSleep

SpecLive == InitRun /\ [][NextLive]_vars /\ WF_vars(NextLive)

----------------------------------------------------------------------------
(* should_send_asset_tracking on its own: the constructor's state with
   last_sent_gps, gps_coords and the clock drawn from small sets, and one call. *)

(* about 0 m, 5 m, just under and just over 10 m, and 15 m north of BaseLat *)
GateLats == { BaseLat, BaseLat + 45, BaseLat + 89, BaseLat + 90, BaseLat + 135 }

GateLastSent ==
    { None } \cup { Some([lat |-> lat, lng |-> BaseLng, ts |-> 0]) : lat \in {BaseLat, BaseLat + 45} }

GateTimes == { 10, 120, 121, 130, 300 }

InitGate ==
    /\ now \in GateTimes
    /\ \E lat \in GateLats :
          /\ gps_coords = [lat |-> lat, lng |-> BaseLng]
          /\ config = [gateway_id |-> GatewayId, gps |-> gps_coords,
                       allowed_tag_uuids |-> {Ta}]
    /\ allowed_order = <<Ta>>
    /\ last_sent_gps \in GateLastSent
    /\ buffer = {}
    /\ tag_rssi_windows = <<>>
    /\ last_batch_time = 0
    /\ scan_count = 0
    /\ scanned = <<>>
    /\ csv_rows = <<>>
    /\ posted = None
    /\ response = "idle"
    /\ recorded = {}
    /\ duplicates = FALSE
    /\ drained = FALSE
    /\ sightings = 0
    /\ gate_result = None
    /\ median_result = None
    /\ pc = "gate"

EvalGate ==
    /\ gate_result = None
    /\ gate_result' = Some(should_send_asset_tracking(last_sent_gps, gps_coords, now))
    /\ UNCHANGED <<now, config_vars, buffer, tag_rssi_windows, last_batch_time,
                   last_sent_gps, scan_count, scanned, csv_rows, posted, response,
                   recorded, duplicates, drained, sightings, pc, median_result>>

NextGate == EvalGate

SpecGate == InitGate /\ [][NextGate]_vars

----------------------------------------------------------------------------
(* Identity resolution on its own: scan_once and save_detections called on a
   freshly constructed scanner, over allow-lists that register tags by name,
   by service identifier and by address in every iteration order. *)

ResolveLists ==
    { <<svc_C2, Ta>>, <<Ta, svc_C2>>, <<addr_b1, Ta>>, <<addr_b1, svc_C2>>,
      <<TA, Ta>>, <<addr_B1, svc_C2, Ta>> }

InitResolve == InitEngine(ResolveLists) /\ pc = "api"

NextResolve == Scan

SpecResolve == InitResolve /\ [][NextResolve]_vars

----------------------------------------------------------------------------
(* The window store on its own: update_tag_rssi_window and get_median_rssi
   called for one tag on a freshly constructed scanner, while the clock
   advances by the length of one iteration of run(). *)

WindowTag == Ta

WindowRssi == { -60, -65, -70 }

WindowStep == DISCOVER_TIMEOUT + SCAN_INTERVAL

InitWindow == InitEngine({ <<WindowTag>> }) /\ pc = "api"

(* update_tag_rssi_window(tag_id, rssi); sightings counts the calls *)
Record ==
    /\ sightings < MaxRecords
    /\ \E rssi \in WindowRssi :
          tag_rssi_windows' =
              update_tag_rssi_window(tag_rssi_windows, WindowTag, rssi, now)
    /\ sightings' = sightings + 1
    /\ median_result' = None
    /\ UNCHANGED <<now, config_vars, buffer, last_batch_time, last_sent_gps,
                   scan_count, scanned, csv_rows, posted, response, recorded,
                   duplicates, drained, pc, gate_result>>

(* get_median_rssi(tag_id) *)
ReadMedian ==
    /\ median_result' =
          Some([found |-> window_of(tag_rssi_windows, WindowTag),
                value |-> get_median_rssi(tag_rssi_windows, WindowTag, now),
                at |-> now])
    /\ tag_rssi_windows' = windows_after_median(tag_rssi_windows, WindowTag, now)
    /\ UNCHANGED <<now, config_vars, buffer, last_batch_time, last_sent_gps,
                   scan_count, scanned, csv_rows, posted, response, recorded,
                   duplicates, drained, sightings, pc, gate_result>>

(* the clock moves on between two calls *)
Advance ==
    /\ now + WindowStep <= MaxClockSteps * WindowStep
    /\ now' = now + WindowStep
    /\ median_result' = None
    /\ UNCHANGED <<config_vars, buffer, tag_rssi_windows, last_batch_time,
                   last_sent_gps, scan_count, scanned, csv_rows, posted, response,
                   recorded, duplicates, drained, sightings, pc, gate_result>>

NextWindow == Record \/ ReadMedian \/ Advance

SpecWindow == InitWindow /\ [][NextWindow]_vars

----------------------------------------------------------------------------
(* Reading the outputs of a step *)

(* the step just taken was a dispatch cycle (batch_send) *)
CycleDone == response # "idle"

(* the transport call of the cycle just taken failed *)
FailedResponses == {"http_error", "raised"}

Telemetry == IF posted = None THEN None ELSE posted[1].telemetry

AssetTracking == IF posted = None THEN None ELSE posted[1].asset_tracking

TagIds(asset) == { asset.tags[i].id : i \in DOMAIN asset.tags }

(* the allow-list entries whose window holds a sample no older than the span *)
FreshTags(windows, current_time) ==
    { e \in config.allowed_tag_uuids :
        \E i \in DOMAIN window_of(windows, e) :
            current_time - window_of(windows, e)[i][1] <= RSSI_WINDOW_SIZE }

(* every string a payload carries *)
PayloadStrings(payload) ==
    (IF payload.telemetry # None THEN {payload.telemetry[1].gateway_id} ELSE {})
    \cup (IF payload.asset_tracking # None
          THEN {payload.asset_tracking[1].gateway_id} \cup TagIds(payload.asset_tracking[1])
          ELSE {})

UpperAddresses == { Upper(a) : a \in Addresses }

(* the strings a sighting advertises, in the order the resolver tries them *)
AdvertisedFields(device) ==
    (IF device.name # <<>> THEN <<device.name>> ELSE <<>>)
    \o device.UUIDs \o device.metadata_uuids \o <<device.address>>

(* device equals entry up to letter case in its name, a service identifier or
   its address *)
MatchesEntry(device, entry) ==
    \E i \in DOMAIN AdvertisedFields(device) :
        Upper(AdvertisedFields(device)[i]) = Upper(entry)

(* the first advertised string, upper-cased, that equals some entry up to case *)
FirstMatchingField(device) ==
    LET fields == AdvertisedFields(device)
        hits == { i \in DOMAIN fields :
                    Upper(fields[i]) \in { Upper(e) : e \in config.allowed_tag_uuids } }
    IN IF hits = {} THEN None
       ELSE Some(Upper(fields[CHOOSE i \in hits : \A j \in hits : i <= j]))

----------------------------------------------------------------------------
(* C1: in every dispatch cycle the telemetry section is present exactly when a
   token was saved since the previous cycle, and its unique_devices is the
   number of distinct tokens saved in that interval. *)
C1_TelemetryCountsDistinctTokens ==
    CycleDone =>
        /\ (Telemetry # None) <=> (recorded # {})
        /\ Telemetry # None => Telemetry[1].unique_devices = Cardinality(recorded)

(* a cycle that reports 3 devices for an interval with a repeated sighting *)
C1_Witness ==
    /\ CycleDone
    /\ Telemetry # None
    /\ Telemetry[1].unique_devices = 3
    /\ duplicates

(* C2: a dispatch cycle whose transport call fails leaves last_batch_time and
   last_sent_gps as they were, and last_sent_gps changes only in a cycle that
   handed an asset_tracking section to the transport. *)
C2_BookkeepingOnlyOnSuccess ==
    [][ /\ response' \in FailedResponses =>
              (last_batch_time' = last_batch_time /\ last_sent_gps' = last_sent_gps)
        /\ last_sent_gps' # last_sent_gps =>
              (posted' # None /\ posted'[1].asset_tracking # None) ]_vars

(* C3: after a transport failure in a dispatch cycle the loop of run() is
   still running. *)
C3_EngineSurvivesTransportFailure ==
    (CycleDone /\ response \in FailedResponses) => pc # "crashed"

(* C4: a cycle includes asset_tracking exactly when the movement gate returns
   true, and then lists exactly the allow-list entries whose window holds a
   sample not older than the span, each once. *)
C4_AssetSectionIffGateAndFreshTags ==
    [][ response' # "idle" =>
          LET asset == IF posted' = None THEN None ELSE posted'[1].asset_tracking
          IN /\ (asset # None)
                    <=> should_send_asset_tracking(last_sent_gps, gps_coords, now)
             /\ asset # None =>
                  /\ TagIds(asset[1]) = FreshTags(tag_rssi_windows, now)
                  /\ Cardinality(TagIds(asset[1])) = Len(asset[1].tags)
                  /\ \A id \in TagIds(asset[1]) :
                        window_of(tag_rssi_windows, id) # <<>> ]_vars

(* a cycle that reports one allow-list entry and omits another, whose window
   holds no sample (never matched, or all samples expired) *)
C4_Witness ==
    /\ CycleDone
    /\ AssetTracking # None
    /\ Len(AssetTracking[1].tags) = 1
    /\ \E e \in config.allowed_tag_uuids :
          /\ e \in DOMAIN tag_rssi_windows
          /\ tag_rssi_windows[e] = <<>>
          /\ e \notin TagIds(AssetTracking[1])

(* C5: a cycle with an empty traffic set and a gate returning false posts
   nothing and leaves last_batch_time and last_sent_gps unchanged. *)
C5_NothingDueNothingSent ==
    [][ ( /\ response' # "idle"
          /\ buffer = {}
          /\ ~should_send_asset_tracking(last_sent_gps, gps_coords, now) )
        => ( /\ posted' = None
             /\ response' = "none"
             /\ last_batch_time' = last_batch_time
             /\ last_sent_gps' = last_sent_gps ) ]_vars

(* a cycle that made no transport call, after an earlier asset report *)
C5_Witness ==
    /\ response = "none"
    /\ posted = None
    /\ last_sent_gps # None
    /\ buffer = {}

(* C6: the traffic set is empty after every cycle, whatever its outcome, and
   holds afterwards only tokens saved since that cycle. *)
C6_BufferDrainedWhateverTheOutcome ==
    /\ CycleDone => buffer = {}
    /\ buffer \subseteq (IF drained THEN {} ELSE recorded)

(* a cycle whose transport call raised, with the drained tokens gone *)
C6_Witness ==
    /\ response = "raised"
    /\ Telemetry # None
    /\ buffer = {}

(* C7, as stated: no payload and no log row carries a hardware address. *)
C7_NoAddressLeavesGateway ==
    /\ posted # None =>
          \A s \in PayloadStrings(posted[1]) : Upper(s) \notin UpperAddresses
    /\ \A i \in DOMAIN csv_rows : Upper(csv_rows[i].hashed_mac) \notin UpperAddresses

(* C7, amended: a payload carries a hardware address only as the id of an
   allow-list entry; the telemetry section carries the count and no token; a
   log row carries the token, not the address. *)
C7_OnlyAllowListedAddressesLeave ==
    /\ posted # None =>
          \A s \in PayloadStrings(posted[1]) :
              Upper(s) \in UpperAddresses => s \in config.allowed_tag_uuids
    /\ Telemetry # None =>
          DOMAIN Telemetry[1] = {"gateway_id", "timestamp", "unique_devices"}
    /\ \A i \in DOMAIN csv_rows : Upper(csv_rows[i].hashed_mac) \notin UpperAddresses

(* a payload with a telemetry section and a tag reported under its address *)
C7_Witness ==
    /\ Telemetry # None
    /\ AssetTracking # None
    /\ \E id \in TagIds(AssetTracking[1]) : Upper(id) \in UpperAddresses

(* C8: the gate returns true if last_sent_gps is None, else if more than 120 s
   have elapsed, else if the gateway moved more than 10 m, else false. *)
C8_GateDecision ==
    gate_result # None =>
        LET elapsed == now - last_sent_gps[1].ts
            moved == haversine_distance(last_sent_gps[1].lat, last_sent_gps[1].lng,
                                        gps_coords.lat, gps_coords.lng)
            north == gps_coords.lat - last_sent_gps[1].lat
        IN /\ gate_result[1] =
                (last_sent_gps = None \/ elapsed > 120 \/ moved > 10 * 1000000)
           /\ last_sent_gps = None => gate_result[1]
           /\ (last_sent_gps # None /\ elapsed = 130 /\ north = 0) => gate_result[1]
           /\ (last_sent_gps # None /\ elapsed = 10 /\ north = 135) => gate_result[1]
           /\ (last_sent_gps # None /\ elapsed = 10 /\ north = 45) => ~gate_result[1]

(* 10 s elapsed and about 5 m moved: the gate said no *)
C8_Witness ==
    /\ gate_result = Some(FALSE)
    /\ last_sent_gps # None
    /\ now - last_sent_gps[1].ts = 10
    /\ gps_coords.lat - last_sent_gps[1].lat = 45

C10_CaseDuplicatesAreOneIdentity ==
    /\ \A k1, k2 \in DOMAIN tag_rssi_windows :
          ( /\ Upper(k1) = Upper(k2)
            /\ tag_rssi_windows[k1] # <<>>
            /\ tag_rssi_windows[k2] # <<>> ) => k1 = k2
    /\ AssetTracking # None =>
          \A i, j \in DOMAIN AssetTracking[1].tags :
              Upper(AssetTracking[1].tags[i].id) = Upper(AssetTracking[1].tags[j].id)
                  => i = j

----------------------------------------------------------------------------
(* the number of samples of a deque taken at time t *)
SamplesAt(window, t) == Cardinality({ i \in DOMAIN window : window[i][1] = t })

(* the allow-list entries the matching order selects for a sighting: the name
   as advertised when it is an entry, else the entries equal to the name up to
   case, else those equal to the first service identifier that matches, else
   those equal to the address *)
ExpectedEntries(device) ==
    LET entries == config.allowed_tag_uuids
        same(s) == { e \in entries : Upper(e) = Upper(s) }
        sids == device.UUIDs \o device.metadata_uuids
        hits == { i \in DOMAIN sids : same(sids[i]) # {} }
    IN IF device.name # <<>> /\ device.name \in entries THEN {device.name}
       ELSE IF device.name # <<>> /\ same(device.name) # {} THEN same(device.name)
       ELSE IF hits # {} THEN same(sids[CHOOSE i \in hits : \A j \in hits : i <= j])
       ELSE same(device.address)

(* C11: the matchers are tried in the order name (exact, then up to case),
   service identifiers, address, and the first match wins: a scan adds a
   sample only to windows of entries that order selects, one sample per
   sighting, and a scan of one sighting adds to at most one window. *)
C11_FirstMatcherWins ==
    [][ scanned' # <<>> =>
          LET live == { i \in DOMAIN scanned' : scanned'[i].RSSI # None }
              gained(k) == SamplesAt(window_of(tag_rssi_windows', k), now')
                           - SamplesAt(window_of(tag_rssi_windows, k), now')
              keys == DOMAIN tag_rssi_windows' \cup config.allowed_tag_uuids
          IN /\ \A k \in keys :
                    /\ gained(k) >= 0
                    /\ gained(k) <= Cardinality({ i \in live :
                                        k \in ExpectedEntries(scanned'[i]) })
             /\ \A i \in live :
                    ExpectedEntries(scanned'[i]) # {} =>
                        \E k \in ExpectedEntries(scanned'[i]) : gained(k) >= 1
             /\ Len(scanned') = 1 =>
                    /\ Cardinality({ k \in keys : gained(k) > 0 }) <= 1
                    /\ \A k \in keys : gained(k) <= 1 ]_vars

(* a sighting named "Ta" that advertises service c-2 from address B:1, with all
   three on the allow-list and the address first in it: recorded under "Ta" only *)
C11_Witness ==
    /\ scanned = <<dev_all>>
    /\ allowed_order = <<addr_B1, svc_C2, Ta>>
    /\ DOMAIN tag_rssi_windows = {Ta}
    /\ tag_rssi_windows[Ta] = << <<now, -60>> >>

----------------------------------------------------------------------------
(* Reading the last call of get_median_rssi *)

(* the samples of the deque the call found that are no older than the span *)
InSpan(r) == SelectSeq(r.found, LAMBDA e : r.at - e[1] <= 30)

SignalsOf(window) == [i \in DOMAIN window |-> window[i][2]]

(* q is the statistical median of the non-empty list vals, by rank: twice q is
   the sum of the lower and the upper central value *)
IsMedianOf(q, vals) ==
    LET n == Len(vals)
        below(v) == Cardinality({ i \in DOMAIN vals : vals[i] < v })
        atmost(v) == Cardinality({ i \in DOMAIN vals : vals[i] <= v })
        lower == CHOOSE v \in Range(vals) :
                    below(v) <= (n - 1) \div 2 /\ atmost(v) >= (n + 1) \div 2
        upper == CHOOSE v \in Range(vals) :
                    below(v) <= n \div 2 /\ atmost(v) >= (n \div 2) + 1
    IN 2 * q.num = (lower + upper) * q.den

(* C12: a read gives no estimate exactly when the window holds no sample of
   the last 30 s, otherwise the estimate is the median of exactly the samples
   no older than 30 s, and no older sample is left in the window. *)
C12_OnlySamplesInSpanContribute ==
    median_result # None =>
        LET r == median_result[1]
        IN /\ (r.value = None) <=> (InSpan(r) = <<>>)
           /\ r.value # None => IsMedianOf(r.value[1], SignalsOf(InSpan(r)))
           /\ \A e \in Range(tag_rssi_windows[WindowTag]) : r.at - e[1] <= 30

(* a read that found one sample 40 s old, which no record call had pruned, and
   one exactly 30 s old, and returned the signal of the second *)
C12_Witness ==
    /\ median_result # None
    /\ Len(median_result[1].found) = 2
    /\ median_result[1].at - median_result[1].found[1][1] = 40
    /\ median_result[1].at - median_result[1].found[2][1] = 30
    /\ median_result[1].value = Some([num |-> median_result[1].found[2][2], den |-> 1])

(* C13: for a non-empty window the value read is the median of the in-window
   signals ([-60,-65,-70] gives -65, [-60,-70] gives -65), and the read leaves
   the in-window entries in the window, in insertion order. *)
C13_MedianOfWindowKeepsOrder ==
    median_result # None =>
        LET r == median_result[1]
            sorted == Sorted(SignalsOf(InSpan(r)))
        IN /\ r.value # None =>
                 /\ IsMedianOf(r.value[1], SignalsOf(InSpan(r)))
                 /\ sorted = <<-70, -65, -60>> => r.value[1] = [num |-> -65, den |-> 1]
                 /\ sorted = <<-70, -60>> => r.value[1].num = -65 * r.value[1].den
           /\ tag_rssi_windows[WindowTag] = InSpan(r)

(* a read of -60, -70, -65, recorded in that order: -65, the window as it was *)
C13_Witness ==
    /\ median_result # None
    /\ SignalsOf(median_result[1].found) = <<-60, -70, -65>>
    /\ median_result[1].value = Some([num |-> -65, den |-> 1])
    /\ tag_rssi_windows[WindowTag] = median_result[1].found

----------------------------------------------------------------------------
(* C14: after a scan, every sighting with a signal strength has its token in
   the traffic set and a row in the log, matched or not; a matched one also has
   its sample in the window of a tag. *)
C14_EverySightingIsCounted ==
    \A i \in DOMAIN scanned :
        scanned[i].RSSI # None =>
            /\ hash_mac(scanned[i].address) \in buffer
            /\ \E j \in DOMAIN csv_rows :
                  /\ csv_rows[j].hashed_mac = hash_mac(scanned[i].address)
                  /\ csv_rows[j].rssi = scanned[i].RSSI[1]
            /\ ExpectedEntries(scanned[i]) # {} =>
                  \E k \in ExpectedEntries(scanned[i]) :
                      <<now, scanned[i].RSSI[1]>> \in Range(window_of(tag_rssi_windows, k))

(* a cycle after one sighting in all, seen from the allow-listed address B:1:
   it reports one device and the tag B:1 *)
C14_Witness ==
    /\ CycleDone
    /\ sightings = 1
    /\ Telemetry # None
    /\ Telemetry[1].unique_devices = 1
    /\ AssetTracking # None
    /\ AssetTracking[1].tags = <<[id |-> addr_B1, rssi |-> -70]>>

(* C15: a scan changes no window unless a sighting with a signal strength
   matches, writes one row and one token per sighting with a signal strength
   and none for the others; a scan of sightings without signal strength leaves
   the windows, the traffic set and the log as they were. *)
C15_NoSignalNoTrace ==
    [][ scanned' # <<>> =>
          LET live == { i \in DOMAIN scanned' : scanned'[i].RSSI # None }
          IN /\ Len(csv_rows') = Cardinality(live)
             /\ \A j \in DOMAIN csv_rows' :
                    \E i \in live : csv_rows'[j].hashed_mac = hash_mac(scanned'[i].address)
             /\ buffer' = buffer \cup { hash_mac(scanned'[i].address) : i \in live }
             /\ (\A i \in live : ExpectedEntries(scanned'[i]) = {})
                    => tag_rssi_windows' = tag_rssi_windows
             /\ live = {} =>
                    /\ tag_rssi_windows' = tag_rssi_windows
                    /\ buffer' = buffer
                    /\ csv_rows' = <<>> ]_vars

(* a sighting without signal strength whose name, service identifier and
   address are all on the allow-list, leaving a filled scanner as it was *)
C15_Witness ==
    /\ scanned = <<dev_all_no_rssi>>
    /\ allowed_order = <<addr_B1, svc_C2, Ta>>
    /\ csv_rows = <<>>
    /\ buffer = {hash_mac(addr_X9)}
    /\ DOMAIN tag_rssi_windows = {svc_C2}
    /\ Len(tag_rssi_windows[svc_C2]) = 1

----------------------------------------------------------------------------
(* C16, as stated: a dispatch that is due is not held back by a scan: whenever
   more than 180 s have passed since last_batch_time, run() is at the check
   that starts the cycle. *)
C16_DueDispatchNotHeldBack ==
    batch_due => pc = "check"

(* C17: scans and cycles take turns.  A cycle adds no token and no sample,
   starts from a traffic set that holds exactly the tokens saved since the last
   drain, counts each of them once and leaves the set empty; tokens and
   samples are added only by the scan step of the loop. *)
C17_ScanAndDispatchTakeTurns ==
    [][ /\ buffer = (IF drained THEN {} ELSE recorded)
        /\ response' # "idle" =>
              /\ pc = "check"
              /\ scanned' = <<>> /\ csv_rows' = <<>>
              /\ buffer' = {}
              /\ \A k \in DOMAIN tag_rssi_windows' :
                    Range(tag_rssi_windows'[k]) \subseteq Range(window_of(tag_rssi_windows, k))
              /\ buffer # {} =>
                    /\ posted' # None /\ posted'[1].telemetry # None
                    /\ posted'[1].telemetry[1].unique_devices = Cardinality(recorded)
              /\ buffer = {} => (posted' # None => posted'[1].telemetry = None)
        /\ ( \/ ~(buffer' \subseteq buffer)
             \/ \E k \in DOMAIN tag_rssi_windows' :
                   ~(Range(tag_rssi_windows'[k]) \subseteq Range(window_of(tag_rssi_windows, k))) )
              => (pc = "scan" /\ pc' = "check" /\ response' = "idle") ]_vars

(* the second cycle of a run, reporting a token saved after the first drain *)
C17_Witness ==
    /\ CycleDone
    /\ now > 2 * BATCH_SEND_INTERVAL
    /\ Telemetry # None
    /\ Telemetry[1].unique_devices = 1
    /\ buffer = {}

(* C18: run() starts a cycle only when more than 180 s have passed since
   last_batch_time, which is the construction time until a cycle hands a
   payload to the transport and the start of the last such cycle afterwards;
   so the first transport call is made more than 180 s after start-up and two
   consecutive calls are more than 180 s apart. *)
C18_CyclesMoreThanIntervalApart ==
    [][ /\ response' # "idle" => now - last_batch_time > 180
        /\ posted' # None => (last_batch_time' = now' /\ now' - last_batch_time > 180)
        /\ posted' = None => last_batch_time' = last_batch_time
        /\ posted' # None => now' > 180 ]_vars

(* the second transport call of a run *)
C18_Witness ==
    /\ posted # None
    /\ last_batch_time = now
    /\ now > 2 * BATCH_SEND_INTERVAL
    /\ scan_count > 2 * (BATCH_SEND_INTERVAL \div (DISCOVER_TIMEOUT + SCAN_INTERVAL))

(* C19: in every cycle run() starts, last_sent_gps is None or more than 120 s
   old, so the gate returns true, the cycle carries an asset_tracking section
   and makes a transport call; last_sent_gps is never later than
   last_batch_time. *)
C19_RunLoopGateAlwaysDue ==
    [][ /\ last_sent_gps' # None => last_sent_gps'[1].ts <= last_batch_time'
        /\ response' # "idle" =>
              /\ (last_sent_gps = None \/ now - last_sent_gps[1].ts > 120)
              /\ should_send_asset_tracking(last_sent_gps, gps_coords, now)
              /\ posted' # None
              /\ posted'[1].asset_tracking # None
              /\ response' # "none" ]_vars

(* a cycle of the loop with nothing to report: no telemetry, an empty tags list,
   and still a transport call *)
C19_Witness ==
    /\ response = "ok"
    /\ posted # None
    /\ Telemetry = None
    /\ AssetTracking # None
    /\ AssetTracking[1].tags = <<>>
    /\ pc = "sleep"

(* iterations of run() that fit into one dispatch interval *)
ScansPerInterval == BATCH_SEND_INTERVAL \div (DISCOVER_TIMEOUT + SCAN_INTERVAL)

(* C20: while the loop runs and transport calls return, a non-empty traffic
   set is eventually drained by a cycle that carried a telemetry section (for
   every token saved while the model still lets the loop run for one more
   dispatch interval). *)
C20_TokensEventuallyDrained ==
    (buffer # {} /\ scan_count + ScansPerInterval <= MaxScanCount)
        ~> (CycleDone /\ Telemetry # None /\ buffer = {})

(* the first cycle of a run, reporting two devices *)
C20_Witness ==
    /\ CycleDone
    /\ Telemetry # None
    /\ Telemetry[1].unique_devices = 2
    /\ buffer = {}
    /\ pc = "sleep"

====
